---- MODULE Spec2Model ----
(***************************************************************************)
(* Model of the multi-messenger event correlator dashboard.                *)
(*                                                                         *)
(* Part 1: the pairwise correlation computation of the CorrelationAnalysis *)
(* component (src/src/components/ui/CorrelationAnalysis.tsx): the          *)
(* `correlationData` memo, recomputed whenever the `events` prop, the      *)
(* `timeWindow` select or the `minConfidence` select changes.              *)
(*                                                                         *)
(* Numbers.  JavaScript numbers are modelled as exact fixed-point values:  *)
(* the real x is the integer x * Unit.  Unit is a multiple of every        *)
(* divisor the computation uses on the modelled inputs (the five time      *)
(* windows, the 24 h RA range, 2, 10, 100), so every division below is     *)
(* exact.  Rounding of IEEE doubles is not modelled.                       *)
(* Timestamps are ISO strings at whole hours, modelled as the hour count   *)
(* since the epoch; Date.getTime() yields milliseconds.                    *)
(* An RA string "<lead>h <min>m" is the record [lead, min].                *)
(*                                                                         *)
(* Part 2: the EventChart component (src/unnamed/part_006), which draws    *)
(* the same `events` array.                                                *)
(* Part 3: the run of LiveCorrelationEngine (src/src/types/index.ts).      *)
(* Part 4: the API server and its in-memory cache (src/api/index.js).      *)
(* Part 5: the event store (src/src/stores/event-store.ts).                *)
(* Part 6: the live list of CosmicObservatoryDashboard (src/src/App.tsx).  *)
(* Part 7: loadData of SkyMap (src/src/components/SkyMap.tsx), the same    *)
(* code as loadData of Analytics (src/src/components/StatusCard.tsx).      *)
(* Each part has its own specification; the variables of the other parts   *)
(* keep their initial values in it.                                        *)
(***************************************************************************)
EXTENDS Integers, Sequences, FiniteSets, TLC

VARIABLES
    events,          \* the `events` prop: the array the parent passes in
    timeWindow,      \* useState('24'): the selected time window, as its integer
    minConfidence,   \* useState('0.7'): the selected floor, as its percentage
    correlationData, \* the useMemo result rendered by the component
    chartData,       \* EventChart: the useMemo result
    liveEngine,      \* LiveCorrelationEngine: its useState values
    liveFetch,       \* LiveCorrelationEngine: where runCorrelationAnalysis awaits
    intervals,       \* LiveCorrelationEngine: the setInterval timers not cleared
    analysisCache,   \* API server: the module variable of that name
    response,        \* API server: the last response sent
    consoleLog,      \* API server: the lines written by console.log
    now,             \* the clock read by new Date()
    eventStore,      \* event store: the zustand state
    timers,          \* event store: remaining ms of each pending setTimeout
    dashboard,       \* CosmicObservatoryDashboard: its useState values
    liveInterval,    \* CosmicObservatoryDashboard: the live interval exists
    skyMap,          \* SkyMap: its useState values
    skyLoad          \* SkyMap: the two requests of the loadData in flight

correlationVars == <<events, timeWindow, minConfidence, correlationData>>
chartVars == <<chartData>>
liveVars == <<liveEngine, liveFetch, intervals>>
apiVars == <<analysisCache, response, consoleLog>>
storeVars == <<eventStore, timers>>
dashboardVars == <<dashboard, liveInterval>>
skyVars == <<skyMap, skyLoad>>

vars == <<correlationVars, chartVars, liveVars, apiVars, now, storeVars,
          dashboardVars, skyVars>>

-----------------------------------------------------------------------------
(* Bounds of the model *)

\* number of distinct events the parent can supply (ids 1..PoolSize)
PoolSize == 6

-----------------------------------------------------------------------------
(* Numbers *)

\* fixed-point 1.0
Unit == 168 * 750

\* a percentage as a fixed-point real: Pct(70) is 0.7
Pct(p) == p * (Unit \div 100)

Abs(x) == IF x < 0 THEN -x ELSE x

Max(a, b) == IF a >= b THEN a ELSE b

Min(a, b) == IF a <= b THEN a ELSE b

-----------------------------------------------------------------------------
(* Program constants *)

\* the SelectItem values of the "Time Window" select
TimeWindowOptions == {1, 6, 24, 72, 168}

\* the SelectItem values of the "Min Confidence" select, as percentages
MinConfidenceOptions == {50, 70, 80, 90}

\* (1000 * 60 * 60): milliseconds per hour
MsPerHour == 1000 * 60 * 60

\* "24h RA range": the divisor of the spatial score
RaRange == 24

\* weights of the composite score, in tenths: 0.4, 0.3, 0.3
WeightTime == 4

WeightSpatial == 3

WeightConfidence == 3

\* slice(0, 10): top 10 correlations
MaxResults == 10

\* thresholds of the likelihood tiers, in tenths: 0.7 and 0.5
HighThreshold == 7

MediumThreshold == 5

\* event types known to the component (getEventTypeColor)
EventTypes == <<"Gravitational Wave", "Gamma-Ray Burst", "Supernova", "Neutrino">>

-----------------------------------------------------------------------------
(* Input events: EventData values the parent may pass *)

\* fields of the pool's events, by id.  The pool holds same-type and cross-type
\* pairs, a confidence on each selectable floor, pairs on the edge of and beyond
\* the 1 h and 6 h windows, RA distances below and above the 24 h range, and
\* pairs whose score is exactly 0.7 (ids 2, 3) and exactly 0.5 (ids 1, 2 at 1 h),
\* two pairs of equal score (ids 4, 6 and 5, 6), and a pair on the edge of the
\* 72 h window whose RA distance exceeds the range (ids 2, 6)
PoolType == <<1, 2, 3, 1, 2, 3, 4, 1>>

PoolHour == <<0, 1, 1, 7, 7, 73, 300, 2>>

PoolRaLead == <<0, 5, 23, 0, 12, 150, 359, 6>>

PoolRaMin == <<0, 30, 59, 15, 0, 0, 45, 30>>

PoolConfidence == <<95, 80, 70, 90, 90, 50, 100, 60>>

\* declinations, in whole degrees
PoolDec == <<-45, 30, 60, 12, 80, 0, -89, 45>>

\* interface EventData
EventData(i) ==
    [id |-> i,
     timestamp |-> PoolHour[i],
     type |-> EventTypes[PoolType[i]],
     confidence |-> Pct(PoolConfidence[i]),
     coordinates |-> [ra |-> [lead |-> PoolRaLead[i], min |-> PoolRaMin[i]],
                     dec |-> PoolDec[i]]]

EventPool == {EventData(i) : i \in 1..PoolSize}

EventIds(evs) == {evs[k].id : k \in 1..Len(evs)}

\* a second set of inputs, the worked examples of the specification: two events
\* of different types 1 h and 1 h of RA apart with confidence 0.9 (ids 11, 12),
\* an event 50 h of RA from id 11 with confidence 0.95 (id 13), and an event
\* whose confidence is 1.5 (id 14)
ScenarioType == <<1, 2, 3, 4>>

ScenarioHour == <<10, 11, 10, 11>>

ScenarioRaLead == <<10, 11, 60, 10>>

ScenarioConfidence == <<90, 90, 95, 150>>

ScenarioEvent(n) ==
    [id |-> 10 + n,
     timestamp |-> ScenarioHour[n],
     type |-> EventTypes[ScenarioType[n]],
     confidence |-> Pct(ScenarioConfidence[n]),
     coordinates |-> [ra |-> [lead |-> ScenarioRaLead[n], min |-> 0], dec |-> 0]]

ScenarioPool == {ScenarioEvent(n) : n \in 1..Len(ScenarioType)}

-----------------------------------------------------------------------------
(* The correlation computation, in the order of the code *)

\* parseFloat(minConfidence)
ConfidenceThreshold(mc) == Pct(mc)

\* the floor applied as a strict bound
PassesConfidenceStrict(e, threshold) == e.confidence > threshold

PassesConfidence(e, threshold) == e.confidence >= threshold

\* a filter that shortens the array it is called on
FilterEventsInPlace(evs, threshold) ==
    LET kept == SelectSeq(evs, LAMBDA e : PassesConfidence(e, threshold))
    IN  [receiver |-> kept, result |-> kept]

\* events.filter(e => e.confidence >= confidenceThreshold): Array.prototype.filter
\* returns a new array and leaves its receiver as it was
FilterEvents(evs, threshold) ==
    [receiver |-> evs,
     result |-> SelectSeq(evs, LAMBDA e : PassesConfidence(e, threshold))]

\* the loop without its same-type skip
SameTypeIgnored(event1, event2) == FALSE

\* if (event1.type === event2.type) continue
SameType(event1, event2) == event1.type = event2.type

\* new Date(timestamp).getTime()
GetTime(timestamp) == timestamp * MsPerHour

\* the difference of the two times without Math.abs
TimeDiffSigned(event1, event2) ==
    (GetTime(event1.timestamp) - GetTime(event2.timestamp)) \div MsPerHour

\* Math.abs(time1 - time2) / (1000 * 60 * 60), in hours
TimeDiff(event1, event2) ==
    Abs(GetTime(event1.timestamp) - GetTime(event2.timestamp)) \div MsPerHour

\* the window applied as a strict bound
WindowExclusive(timeDiff, timeWindowHours) == timeDiff >= timeWindowHours

\* the loop without its window check
WindowIgnored(timeDiff, timeWindowHours) == FALSE

\* if (timeDiff > timeWindowHours) continue
OutsideWindow(timeDiff, timeWindowHours) == timeDiff > timeWindowHours

\* parseFloat(coordinates.ra.split('h')[0])
ParseRa(ra) == ra.lead

\* the RA distance taken the short way round the 24 h circle
SpatialDistanceWrapped(event1, event2) ==
    LET d == Abs(ParseRa(event1.coordinates.ra) - ParseRa(event2.coordinates.ra))
    IN  Min(d, RaRange - d)

\* Math.abs(ra1 - ra2)
SpatialDistance(event1, event2) ==
    Abs(ParseRa(event1.coordinates.ra) - ParseRa(event2.coordinates.ra))

\* Math.max(0, 1 - (timeDiff / timeWindowHours))
TimeScore(timeDiff, timeWindowHours) ==
    Max(0, Unit - ((timeDiff * Unit) \div timeWindowHours))

\* the spatial score over a 360 degree range
SpatialScoreDegrees(spatialDistance) ==
    Max(0, Unit - ((spatialDistance * Unit) \div 360))

\* the spatial score without Math.max(0, ...)
SpatialScoreUnclamped(spatialDistance) ==
    Unit - ((spatialDistance * Unit) \div RaRange)

\* Math.max(0, 1 - (spatialDistance / 24))
SpatialScore(spatialDistance) ==
    Max(0, Unit - ((spatialDistance * Unit) \div RaRange))

\* (event1.confidence + event2.confidence) / 2
ConfidenceScore(event1, event2) == (event1.confidence + event2.confidence) \div 2

\* the composite with the weights of time and space exchanged
CorrelationScoreSwapped(timeScore, spatialScore, confidenceScore) ==
    (timeScore * WeightSpatial + spatialScore * WeightTime
        + confidenceScore * WeightConfidence) \div 10

\* timeScore * 0.4 + spatialScore * 0.3 + confidenceScore * 0.3
CorrelationScore(timeScore, spatialScore, confidenceScore) ==
    (timeScore * WeightTime + spatialScore * WeightSpatial
        + confidenceScore * WeightConfidence) \div 10

\* the tiers with >= in place of >
LikelihoodInclusive(correlationScore) ==
    IF correlationScore * 10 >= HighThreshold * Unit THEN "high"
    ELSE IF correlationScore * 10 >= MediumThreshold * Unit THEN "medium"
    ELSE "low"

\* if (score > 0.7) 'high'; else if (score > 0.5) 'medium'; else 'low'
Likelihood(correlationScore) ==
    IF correlationScore * 10 > HighThreshold * Unit THEN "high"
    ELSE IF correlationScore * 10 > MediumThreshold * Unit THEN "medium"
    ELSE "low"

\* a result that stores the first event twice
CandidateSelfPaired(event1, event2, timeWindowHours) ==
    LET timeDiff == TimeDiff(event1, event2)
        spatialDistance == SpatialDistance(event1, event2)
        correlationScore ==
            CorrelationScore(TimeScore(timeDiff, timeWindowHours),
                             SpatialScore(spatialDistance),
                             ConfidenceScore(event1, event2))
    IN  [eventPair |-> <<event1, event1>>,
         timeDiff |-> timeDiff,
         spatialDistance |-> spatialDistance,
         correlationScore |-> correlationScore,
         likelihood |-> Likelihood(correlationScore)]

\* a result that stores the pair in reverse
CandidateReversed(event1, event2, timeWindowHours) ==
    LET timeDiff == TimeDiff(event1, event2)
        spatialDistance == SpatialDistance(event1, event2)
        correlationScore ==
            CorrelationScore(TimeScore(timeDiff, timeWindowHours),
                             SpatialScore(spatialDistance),
                             ConfidenceScore(event1, event2))
    IN  [eventPair |-> <<event2, event1>>,
         timeDiff |-> timeDiff,
         spatialDistance |-> spatialDistance,
         correlationScore |-> correlationScore,
         likelihood |-> Likelihood(correlationScore)]

\* the CorrelationResult pushed for a surviving pair
Candidate(event1, event2, timeWindowHours) ==
    LET timeDiff == TimeDiff(event1, event2)
        spatialDistance == SpatialDistance(event1, event2)
        correlationScore ==
            CorrelationScore(TimeScore(timeDiff, timeWindowHours),
                             SpatialScore(spatialDistance),
                             ConfidenceScore(event1, event2))
    IN  [eventPair |-> <<event1, event2>>,
         timeDiff |-> timeDiff,
         spatialDistance |-> spatialDistance,
         correlationScore |-> correlationScore,
         likelihood |-> Likelihood(correlationScore)]

\* the body of the inner loop for one pair
VisitPair(event1, event2, timeWindowHours, correlations) ==
    IF SameType(event1, event2) THEN correlations
    ELSE IF OutsideWindow(TimeDiff(event1, event2), timeWindowHours) THEN correlations
    ELSE Append(correlations, Candidate(event1, event2, timeWindowHours))

\* for (let j = i + 1; j < filteredEvents.length; j++)
RECURSIVE InnerLoop(_, _, _, _, _)
InnerLoop(filteredEvents, timeWindowHours, i, j, correlations) ==
    IF j > Len(filteredEvents) THEN correlations
    ELSE InnerLoop(filteredEvents, timeWindowHours, i, j + 1,
                   VisitPair(filteredEvents[i], filteredEvents[j],
                             timeWindowHours, correlations))

\* for (let i = 0; i < filteredEvents.length; i++)
RECURSIVE OuterLoop(_, _, _, _)
OuterLoop(filteredEvents, timeWindowHours, i, correlations) ==
    IF i > Len(filteredEvents) THEN correlations
    ELSE OuterLoop(filteredEvents, timeWindowHours, i + 1,
                   InnerLoop(filteredEvents, timeWindowHours, i, i + 1, correlations))

\* one insertion of the stable sort: c goes after every element the comparator
\* (a, b) => b.correlationScore - a.correlationScore does not place behind it
RECURSIVE InsertByScore(_, _)
InsertByScore(sorted, c) ==
    IF sorted = <<>> THEN <<c>>
    ELSE IF sorted[Len(sorted)].correlationScore >= c.correlationScore
         THEN Append(sorted, c)
         ELSE Append(InsertByScore(SubSeq(sorted, 1, Len(sorted) - 1), c),
                     sorted[Len(sorted)])

RECURSIVE SortFrom(_, _, _)
SortFrom(correlations, k, sorted) ==
    IF k > Len(correlations) THEN sorted
    ELSE SortFrom(correlations, k + 1, InsertByScore(sorted, correlations[k]))

\* a sort that is not stable: an element goes before the elements of equal score
RECURSIVE InsertBeforeEqual(_, _)
InsertBeforeEqual(sorted, c) ==
    IF sorted = <<>> THEN <<c>>
    ELSE IF sorted[Len(sorted)].correlationScore > c.correlationScore
         THEN Append(sorted, c)
         ELSE Append(InsertBeforeEqual(SubSeq(sorted, 1, Len(sorted) - 1), c),
                     sorted[Len(sorted)])

RECURSIVE UnstableSortFrom(_, _, _)
UnstableSortFrom(correlations, k, sorted) ==
    IF k > Len(correlations) THEN sorted
    ELSE UnstableSortFrom(correlations, k + 1, InsertBeforeEqual(sorted, correlations[k]))

SortByScoreUnstable(correlations) == UnstableSortFrom(correlations, 1, <<>>)

\* the list left in enumeration order
Unsorted(correlations) == correlations

\* correlations.sort((a, b) => b.correlationScore - a.correlationScore):
\* Array.prototype.sort is stable
SortByScore(correlations) == SortFrom(correlations, 1, <<>>)

\* the list returned whole
AllResults(correlations) == correlations

\* correlations.slice(0, 10)
TopResults(correlations) == SubSeq(correlations, 1, Min(Len(correlations), MaxResults))

\* a computation that visits every ordered pair of positions, i = j included,
\* and has no type check
ComputeCorrelationsNaive(evs, tw, mc) ==
    LET filtered == FilterEvents(evs, ConfidenceThreshold(mc))
        n == Len(filtered.result)
        all == [k \in 1..(n * n) |->
                   Candidate(filtered.result[((k - 1) \div n) + 1],
                             filtered.result[((k - 1) % n) + 1], tw)]
        correlations == SelectSeq(all, LAMBDA c : ~OutsideWindow(c.timeDiff, tw))
    IN  [events |-> filtered.receiver,
         correlationData |-> TopResults(SortByScore(correlations))]

\* a computation that cuts to ten before it sorts
ComputeCorrelationsCutFirst(evs, tw, mc) ==
    LET filtered == FilterEvents(evs, ConfidenceThreshold(mc))
        correlations == OuterLoop(filtered.result, tw, 1, <<>>)
    IN  [events |-> filtered.receiver,
         correlationData |-> SortByScore(TopResults(correlations))]

\* the useMemo callback: the value it returns and the events array after it ran
ComputeCorrelations(evs, tw, mc) ==
    LET timeWindowHours == tw
        filtered == FilterEvents(evs, ConfidenceThreshold(mc))
        correlations == OuterLoop(filtered.result, timeWindowHours, 1, <<>>)
    IN  [events |-> filtered.receiver,
         correlationData |-> TopResults(SortByScore(correlations))]

-----------------------------------------------------------------------------
(* Part 2: the chartData memo of EventChart *)

\* new Date(event.timestamp).toLocaleDateString(): the calendar day of a
\* timestamp in hours
LocaleDate(timestamp) == timestamp \div 24

\* events.reduce((acc, event) => { acc[event.type] = (acc[event.type] || 0) + 1 })
\* as Object.entries lists it: one entry per type, in order of first occurrence
RECURSIVE TypeDistribution(_, _)
TypeDistribution(evs, acc) ==
    IF evs = <<>> THEN acc
    ELSE LET type == Head(evs).type
             found == {k \in DOMAIN acc : acc[k].name = type}
         IN  IF found = {}
             THEN TypeDistribution(Tail(evs), Append(acc, [name |-> type, value |-> 1]))
             ELSE TypeDistribution(Tail(evs),
                      [k \in DOMAIN acc |->
                          IF k \in found THEN [acc[k] EXCEPT !.value = @ + 1] ELSE acc[k]])

PieData(evs) == TypeDistribution(evs, <<>>)

\* the three events.filter(...).length counts of confidenceRanges
BarData(evs) ==
    <<[range |-> "High (90%+)",
       count |-> Cardinality({k \in DOMAIN evs : evs[k].confidence >= 90})],
      [range |-> "Medium (70-89%)",
       count |-> Cardinality({k \in DOMAIN evs : evs[k].confidence >= 70
                                                 /\ evs[k].confidence < 90})],
      [range |-> "Low (<70%)",
       count |-> Cardinality({k \in DOMAIN evs : evs[k].confidence < 70})]>>

\* one step of the stable sort by ascending time: e goes after the entries that
\* are not later than it
InsertByTime(sorted, e) ==
    LET n == Cardinality({k \in DOMAIN sorted : sorted[k].timestamp <= e.timestamp})
    IN  SubSeq(sorted, 1, n) \o <<e>> \o SubSeq(sorted, n + 1, Len(sorted))

RECURSIVE SortByTimeFrom(_, _, _)
SortByTimeFrom(evs, k, sorted) ==
    IF k > Len(evs) THEN sorted
    ELSE SortByTimeFrom(evs, k + 1, InsertByTime(sorted, evs[k]))

\* events.sort((a, b) => new Date(a.timestamp).getTime() - new Date(b.timestamp).getTime()):
\* Array.prototype.sort orders the array it is called on
SortByTimestamp(evs) == SortByTimeFrom(evs, 1, <<>>)

\* .reduce((acc, event, index) => ...): one point per day, with the number of
\* events of the day and the 1-based position of its first event
RECURSIVE TimelineFrom(_, _, _)
TimelineFrom(sorted, index, acc) ==
    IF index > Len(sorted) THEN acc
    ELSE LET date == LocaleDate(sorted[index].timestamp)
             existing == {k \in DOMAIN acc : acc[k].date = date}
         IN  IF existing # {}
             THEN TimelineFrom(sorted, index + 1,
                      [k \in DOMAIN acc |->
                          IF k \in existing THEN [acc[k] EXCEPT !.count = @ + 1] ELSE acc[k]])
             ELSE TimelineFrom(sorted, index + 1,
                      Append(acc, [date |-> date, count |-> 1, cumulative |-> index]))

\* the useMemo body: the events array as the sort leaves it, and the result
ChartMemo(evs) ==
    LET sorted == SortByTimestamp(evs)
    IN  [events |-> sorted,
         chartData |-> [pieData |-> PieData(evs),
                        barData |-> BarData(evs),
                        timelineData |-> TimelineFrom(sorted, 1, <<>>)]]

ChartInit == chartData = ChartMemo(<<>>).chartData

\* the parent renders CorrelationAnalysis and then EventChart with the same
\* new events array: the correlation memo runs on the array as passed, then
\* the chart memo sorts it
RenderCorrelationFirst(e, atFront) ==
    /\ \A id \in EventIds(events) : id < e.id
    /\ LET evs == IF atFront THEN <<e>> \o events ELSE Append(events, e)
           run == ComputeCorrelations(evs, timeWindow, minConfidence)
           memo == ChartMemo(run.events)
       IN  /\ correlationData' = run.correlationData
           /\ chartData' = memo.chartData
           /\ events' = memo.events
    /\ UNCHANGED <<timeWindow, minConfidence>>
    /\ UNCHANGED <<liveVars, apiVars, now, storeVars, dashboardVars, skyVars>>

\* the parent renders EventChart and then CorrelationAnalysis: the correlation
\* memo runs on the array the chart memo has sorted
RenderChartFirst(e, atFront) ==
    /\ \A id \in EventIds(events) : id < e.id
    /\ LET evs == IF atFront THEN <<e>> \o events ELSE Append(events, e)
           memo == ChartMemo(evs)
           run == ComputeCorrelations(memo.events, timeWindow, minConfidence)
       IN  /\ chartData' = memo.chartData
           /\ correlationData' = run.correlationData
           /\ events' = run.events
    /\ UNCHANGED <<timeWindow, minConfidence>>
    /\ UNCHANGED <<liveVars, apiVars, now, storeVars, dashboardVars, skyVars>>

-----------------------------------------------------------------------------
(* Part 3: runCorrelationAnalysis of LiveCorrelationEngine *)

\* the value null of a string | null state
Null == "null"

\* setInterval timers that may exist at once
MaxIntervals == 2

\* Math.min(prev + 10, 90) and setProgress(100)
ProgressStep == 10
ProgressCap == 90
ProgressDone == 100

\* status codes of the responses of POST /api/v1/live-correlation
HttpStatuses == {200, 500}

\* response.ok
ResponseOk(status) == status >= 200 /\ status <= 299

\* the parsed bodies: with the correlations of the server, or without any
LiveBodies ==
    {[status |-> "success", correlations |-> <<"corr_001">>],
     [error |-> "Live correlation analysis failed"]}

\* what fetch and response.json() reject with
Rejections ==
    {[isError |-> TRUE, message |-> "Failed to fetch"],
     [isError |-> TRUE, message |-> "Unexpected end of JSON input"]}

\* err instanceof Error ? err.message : 'Analysis failed'
AnalysisErrorMessage(err) == IF err.isError THEN err.message ELSE "Analysis failed"

\* `HTTP error! status: ${response.status}`
HttpErrorMessage(status) == "HTTP error! status: " \o ToString(status)

LiveInit ==
    /\ liveEngine = [isRunning |-> FALSE, correlations |-> <<>>, loading |-> FALSE,
                     error |-> Null, progress |-> 0]
    /\ liveFetch = "idle"
    /\ intervals = 0

\* the finally block
LiveFinally(state) ==
    [state EXCEPT !.loading = FALSE, !.isRunning = FALSE, !.progress = 0]

\* the catch block followed by the finally block
LiveCatch(state, message) == LiveFinally([state EXCEPT !.error = message])

\* the Run button (disabled={loading || isRunning}): the code up to the
\* awaited fetch
RunCorrelationAnalysis ==
    /\ ~liveEngine.loading /\ ~liveEngine.isRunning
    /\ liveFetch = "idle"
    /\ intervals < MaxIntervals
    /\ liveEngine' = [liveEngine EXCEPT !.isRunning = TRUE, !.loading = TRUE,
                                        !.error = Null, !.progress = 0]
    /\ intervals' = intervals + 1
    /\ liveFetch' = "fetch"
    /\ UNCHANGED <<correlationVars, chartVars, apiVars, now, storeVars,
                   dashboardVars, skyVars>>

\* a progressInterval callback: setProgress(prev => Math.min(prev + 10, 90))
ProgressTick ==
    /\ intervals > 0
    /\ liveEngine' = [liveEngine EXCEPT
                         !.progress = Min(@ + ProgressStep, ProgressCap)]
    /\ UNCHANGED <<liveFetch, intervals>>
    /\ UNCHANGED <<correlationVars, chartVars, apiVars, now, storeVars,
                   dashboardVars, skyVars>>

\* fetch resolves: clearInterval, setProgress(100), then either the throw on a
\* status that is not ok, or the awaited response.json()
FetchResolves(status) ==
    /\ liveFetch = "fetch"
    /\ intervals' = intervals - 1
    /\ IF ResponseOk(status)
       THEN /\ liveEngine' = [liveEngine EXCEPT !.progress = ProgressDone]
            /\ liveFetch' = "json"
       ELSE /\ liveEngine' = LiveCatch([liveEngine EXCEPT !.progress = ProgressDone],
                                       HttpErrorMessage(status))
            /\ liveFetch' = "idle"
    /\ UNCHANGED <<correlationVars, chartVars, apiVars, now, storeVars,
                   dashboardVars, skyVars>>

\* fetch rejects: control goes from line 147 to the catch block
FetchRejects(err) ==
    /\ liveFetch = "fetch"
    /\ liveEngine' = LiveCatch(liveEngine, AnalysisErrorMessage(err))
    /\ liveFetch' = "idle"
    /\ UNCHANGED intervals
    /\ UNCHANGED <<correlationVars, chartVars, apiVars, now, storeVars,
                   dashboardVars, skyVars>>

\* response.json() resolves: setCorrelations(data.correlations || [])
JsonResolves(data) ==
    /\ liveFetch = "json"
    /\ liveEngine' = LiveFinally([liveEngine EXCEPT
           !.correlations = IF "correlations" \in DOMAIN data
                            THEN data.correlations ELSE <<>>])
    /\ liveFetch' = "idle"
    /\ UNCHANGED intervals
    /\ UNCHANGED <<correlationVars, chartVars, apiVars, now, storeVars,
                   dashboardVars, skyVars>>

\* response.json() rejects
JsonRejects(err) ==
    /\ liveFetch = "json"
    /\ liveEngine' = LiveCatch(liveEngine, AnalysisErrorMessage(err))
    /\ liveFetch' = "idle"
    /\ UNCHANGED intervals
    /\ UNCHANGED <<correlationVars, chartVars, apiVars, now, storeVars,
                   dashboardVars, skyVars>>

-----------------------------------------------------------------------------
(* Part 4: the API server.  Every handler is synchronous, so a request is  *)
(* one step.  The endpoints that read no state but the clock (/, health,   *)
(* data-sources, priority-levels) are left out.                            *)

\* values of the clock
MaxNow == 3

GetMockEvents ==
    <<[id |-> "GW240101_123456", source |-> "GWOSC",
       event_type |-> "gravitational_wave", confidence |-> 95, priority |-> "HIGH"],
      [id |-> "GRB240101_125012", source |-> "HEASARC",
       event_type |-> "gamma_burst", confidence |-> 88, priority |-> "MEDIUM"]>>

GetMockCorrelations ==
    <<[id |-> "corr_001", event1_id |-> "GW240101_123456",
       event2_id |-> "GRB240101_125012", correlation_score |-> 95,
       priority |-> "CRITICAL"]>>

\* Object.keys(o).length of an object held as a function on its keys
KeyCount(o) == Cardinality(DOMAIN o)

ApiInit ==
    /\ analysisCache = [phase2_data |-> <<>>, phase4_results |-> <<>>,
                        phase5_results |-> <<>>, last_update |-> Null]
    /\ response = [endpoint |-> "none"]
    /\ consoleLog = {}

\* time passes
ClockTick ==
    /\ now < MaxNow
    /\ now' = now + 1
    /\ UNCHANGED <<correlationVars, chartVars, liveVars, apiVars, storeVars,
                   dashboardVars, skyVars>>

\* the body of GET /api/v1/status
StatusBody(cache, t) ==
    [status |-> "idle",
     timestamp |-> t,
     phase2_complete |-> Len(cache.phase2_data) > 0,
     phase3_complete |-> KeyCount(cache.phase4_results) > 0,
     phase4_complete |-> KeyCount(cache.phase4_results) > 0,
     phase5_complete |-> Len(cache.phase5_results) > 0,
     total_events |-> Len(cache.phase2_data),
     total_correlations |-> Len(cache.phase5_results),
     analysis_cache |-> [has_phase5 |-> Len(cache.phase5_results) > 0]]

GetStatus ==
    /\ response' = [endpoint |-> "GET /api/v1/status", code |-> 200,
                    body |-> StatusBody(analysisCache, now)]
    /\ UNCHANGED <<analysisCache, consoleLog, now>>
    /\ UNCHANGED <<correlationVars, chartVars, liveVars, storeVars,
                   dashboardVars, skyVars>>

CollectData ==
    LET cache == [analysisCache EXCEPT !.phase2_data = GetMockEvents,
                                       !.last_update = now]
    IN  /\ consoleLog' = consoleLog \cup {"Starting data collection..."}
        /\ analysisCache' = cache
        /\ response' = [endpoint |-> "POST /api/v1/collect-data", code |-> 200,
                        body |-> [status |-> "success",
                                  message |-> "Data collection completed (mock mode)",
                                  timestamp |-> now,
                                  total_events |-> Len(cache.phase2_data)]]
        /\ UNCHANGED now
        /\ UNCHANGED <<correlationVars, chartVars, liveVars, storeVars,
                       dashboardVars, skyVars>>

AnalyzeCorrelations ==
    LET summary == [total_correlations |-> Len(GetMockCorrelations)]
        cache == [analysisCache EXCEPT
                     !.phase5_results = GetMockCorrelations,
                     !.phase4_results = [correlations |-> GetMockCorrelations,
                                         summary |-> summary],
                     !.last_update = now]
    IN  /\ consoleLog' = consoleLog \cup {"Starting correlation analysis pipeline..."}
        /\ analysisCache' = cache
        /\ response' = [endpoint |-> "POST /api/v1/analyze-correlations", code |-> 200,
                        body |-> [status |-> "success",
                                  message |-> "Correlation analysis completed (mock mode)",
                                  timestamp |-> now,
                                  total_correlations |-> Len(cache.phase5_results),
                                  analysis_summary |-> cache.phase4_results.summary]]
        /\ UNCHANGED now
        /\ UNCHANGED <<correlationVars, chartVars, liveVars, storeVars,
                       dashboardVars, skyVars>>

\* the events handler with the emptiness test of the results handler
EventsBodyAfterAnalysis(cache, t) ==
    IF Len(cache.phase5_results) = 0
    THEN [status |-> "success", timestamp |-> t, total_events |-> 0, events |-> <<>>,
          message |-> "No events available. Please run data collection first."]
    ELSE [status |-> "success", timestamp |-> t,
          total_events |-> Len(cache.phase2_data), events |-> cache.phase2_data]

\* the body of GET /api/v1/events
EventsBody(cache, t) ==
    IF Len(cache.phase2_data) = 0
    THEN [status |-> "success", timestamp |-> t, total_events |-> 0, events |-> <<>>,
          message |-> "No events available. Please run data collection first."]
    ELSE [status |-> "success", timestamp |-> t,
          total_events |-> Len(cache.phase2_data), events |-> cache.phase2_data]

GetEvents ==
    /\ response' = [endpoint |-> "GET /api/v1/events", code |-> 200,
                    body |-> EventsBody(analysisCache, now)]
    /\ UNCHANGED <<analysisCache, consoleLog, now>>
    /\ UNCHANGED <<correlationVars, chartVars, liveVars, storeVars,
                   dashboardVars, skyVars>>

\* the body of GET /api/v1/results
ResultsBody(cache, t) ==
    IF Len(cache.phase5_results) = 0
    THEN [status |-> "success", timestamp |-> t, total_correlations |-> 0,
          correlations |-> <<>>, summary_stats |-> <<>>,
          message |-> "No analysis results available. Please run correlation analysis first."]
    ELSE [status |-> "success", timestamp |-> t,
          total_correlations |-> Len(cache.phase5_results),
          correlations |-> cache.phase5_results,
          summary_stats |-> cache.phase4_results.summary]

GetResults ==
    /\ response' = [endpoint |-> "GET /api/v1/results", code |-> 200,
                    body |-> ResultsBody(analysisCache, now)]
    /\ UNCHANGED <<analysisCache, consoleLog, now>>
    /\ UNCHANGED <<correlationVars, chartVars, liveVars, storeVars,
                   dashboardVars, skyVars>>

LiveCorrelation ==
    /\ response' = [endpoint |-> "POST /api/v1/live-correlation", code |-> 200,
                    body |-> [status |-> "success",
                              message |-> "Live correlation analysis completed (mock mode)",
                              timestamp |-> now,
                              total_correlations |-> Len(GetMockCorrelations),
                              correlations |-> GetMockCorrelations]]
    /\ UNCHANGED <<analysisCache, consoleLog, now>>
    /\ UNCHANGED <<correlationVars, chartVars, liveVars, storeVars,
                   dashboardVars, skyVars>>

-----------------------------------------------------------------------------
(* Part 5: the event store.  fetchEvents awaits a setTimeout of 1000 ms;   *)
(* `timers` holds the remaining time of each pending call, oldest first.   *)

\* fetchEvents calls pending at once
MaxPending == 3

\* steps in which the model's time crosses the delay of one call
StepsPerDelay == 4

\* setTimeout(resolve, 1000)
FetchDelay == 1000

TimeStep == FetchDelay \div StepsPerDelay

\* the ids of mockEvents
MockEvents == <<"GW240101_123456", "GRB240101_125012", "SN2024ab", "IC240103_142837">>

StoreInit ==
    /\ eventStore = [events |-> <<>>, isLoading |-> FALSE, error |-> Null]
    /\ timers = <<>>

\* fetchEvents up to its await: set({ isLoading: true, error: null })
FetchEvents ==
    /\ Len(timers) < MaxPending
    /\ eventStore' = [eventStore EXCEPT !.isLoading = TRUE, !.error = Null]
    /\ timers' = Append(timers, FetchDelay)
    /\ UNCHANGED <<correlationVars, chartVars, liveVars, apiVars, now,
                   dashboardVars, skyVars>>

\* time passes while no timer is due
TimePasses ==
    /\ timers # <<>>
    /\ \A k \in DOMAIN timers : timers[k] > 0
    /\ timers' = [k \in DOMAIN timers |-> Max(0, timers[k] - TimeStep)]
    /\ UNCHANGED eventStore
    /\ UNCHANGED <<correlationVars, chartVars, liveVars, apiVars, now,
                   dashboardVars, skyVars>>

\* the oldest timer is due and its call resumes:
\* set({ events: mockEvents, isLoading: false })
TimerFires ==
    /\ timers # <<>>
    /\ Head(timers) = 0
    /\ eventStore' = [eventStore EXCEPT !.events = MockEvents, !.isLoading = FALSE]
    /\ timers' = Tail(timers)
    /\ UNCHANGED <<correlationVars, chartVars, liveVars, apiVars, now,
                   dashboardVars, skyVars>>

-----------------------------------------------------------------------------
(* Part 6: the live list of CosmicObservatoryDashboard.  `now` counts the  *)
(* 3000 ms periods of the live interval; Date.now() is now * 10, so that   *)
(* the ids Date.now() + i of one analysis differ from those of later       *)
(* ticks.  The random fields of an entry are left out.                     *)

\* periods of the live interval
MaxTicks == 22

\* prev.slice(-19)
LiveKeep == 19

\* for (let i = 0; i < 10; i++)
AnalysisSize == 10

DateNow(t) == t * AnalysisSize

\* prev.slice(-21): one entry too many is kept
SliceLastOneMore(list, n) == SubSeq(list, Max(1, Len(list) - n - 1), Len(list))

\* list.slice(-n)
SliceLast(list, n) == SubSeq(list, Max(1, Len(list) - n + 1), Len(list))

\* the ten results of one analysis
AnalysisResults(t) == [i \in 1 .. AnalysisSize |-> [id |-> DateNow(t) + (i - 1)]]

DashboardInit ==
    /\ dashboard = [isLiveMode |-> TRUE, correlationResults |-> <<>>]
    /\ liveInterval = TRUE

\* the interval callback, one period later:
\* setCorrelationResults(prev => [...prev.slice(-19), newCorrelation])
LiveTick ==
    /\ liveInterval
    /\ now < MaxTicks
    /\ now' = now + 1
    /\ dashboard' = [dashboard EXCEPT !.correlationResults =
                        Append(SliceLast(@, LiveKeep), [id |-> DateNow(now + 1)])]
    /\ UNCHANGED liveInterval
    /\ UNCHANGED <<correlationVars, chartVars, liveVars, apiVars, storeVars, skyVars>>

\* the Run Analysis button: setCorrelationResults(analysisResults)
DashboardRunCorrelationAnalysis ==
    /\ dashboard' = [dashboard EXCEPT !.correlationResults = AnalysisResults(now)]
    /\ UNCHANGED <<liveInterval, now>>
    /\ UNCHANGED <<correlationVars, chartVars, liveVars, apiVars, storeVars, skyVars>>

\* setIsLiveMode(!isLiveMode); the effect's cleanup clears the interval and
\* the effect sets a new one if live mode is on
ToggleLiveMode ==
    /\ dashboard' = [dashboard EXCEPT !.isLiveMode = ~@]
    /\ liveInterval' = ~dashboard.isLiveMode
    /\ UNCHANGED now
    /\ UNCHANGED <<correlationVars, chartVars, liveVars, apiVars, storeVars, skyVars>>

-----------------------------------------------------------------------------
(* Part 7: loadData of SkyMap.  The two requests of Promise.all settle in  *)
(* either order; the first rejection ends the load.                        *)

\* eventsResponse.events and correlationsResponse.correlations as the server
\* can return them
SkyEvents == {<<>>, GetMockEvents}
SkyCorrelations == {<<>>, GetMockCorrelations}

\* messages of the errors apiClient.request rejects with
LoadFailures == {"API request failed: 500 Internal Server Error", "Failed to fetch"}

NoRequest == [state |-> "none", value |-> <<>>]
PendingRequest == [state |-> "pending", value |-> <<>>]
Resolved(v) == [state |-> "resolved", value |-> v]

SkyInit ==
    /\ skyMap = [events |-> <<>>, correlations |-> <<>>, loading |-> TRUE,
                 error |-> Null, lastUpdated |-> Null]
    /\ skyLoad = [mounted |-> FALSE, events |-> NoRequest, results |-> NoRequest]

\* loadData up to its await, called by the mount effect, by Retry or by
\* Refresh (no button is rendered while loading)
LoadData ==
    /\ ~skyLoad.mounted \/ ~skyMap.loading
    /\ skyMap' = [skyMap EXCEPT !.loading = TRUE, !.error = Null]
    /\ skyLoad' = [mounted |-> TRUE, events |-> PendingRequest, results |-> PendingRequest]
    /\ UNCHANGED <<correlationVars, chartVars, liveVars, apiVars, now, storeVars,
                   dashboardVars>>

\* lines 24-26 and the finally block
LoadSucceeds(state, evs, corrs, t) ==
    [state EXCEPT !.events = evs, !.correlations = corrs, !.lastUpdated = t,
                  !.loading = FALSE]

\* getEvents resolves and setEvents runs at once, before getResults settles
GetEventsResolvesEager(v) ==
    /\ skyLoad.events.state = "pending"
    /\ IF skyLoad.results.state = "resolved"
       THEN /\ skyMap' = LoadSucceeds(skyMap, v, skyLoad.results.value, now)
            /\ skyLoad' = [skyLoad EXCEPT !.events = NoRequest, !.results = NoRequest]
       ELSE /\ skyLoad' = [skyLoad EXCEPT !.events = Resolved(v)]
            /\ skyMap' = [skyMap EXCEPT !.events = v]
    /\ UNCHANGED <<correlationVars, chartVars, liveVars, apiVars, now, storeVars,
                   dashboardVars>>

\* apiClient.getEvents() resolves; Promise.all resolves once both have
GetEventsResolves(v) ==
    /\ skyLoad.events.state = "pending"
    /\ IF skyLoad.results.state = "resolved"
       THEN /\ skyMap' = LoadSucceeds(skyMap, v, skyLoad.results.value, now)
            /\ skyLoad' = [skyLoad EXCEPT !.events = NoRequest, !.results = NoRequest]
       ELSE /\ skyLoad' = [skyLoad EXCEPT !.events = Resolved(v)]
            /\ UNCHANGED skyMap
    /\ UNCHANGED <<correlationVars, chartVars, liveVars, apiVars, now, storeVars,
                   dashboardVars>>

\* apiClient.getResults() resolves
GetResultsResolves(v) ==
    /\ skyLoad.results.state = "pending"
    /\ IF skyLoad.events.state = "resolved"
       THEN /\ skyMap' = LoadSucceeds(skyMap, skyLoad.events.value, v, now)
            /\ skyLoad' = [skyLoad EXCEPT !.events = NoRequest, !.results = NoRequest]
       ELSE /\ skyLoad' = [skyLoad EXCEPT !.results = Resolved(v)]
            /\ UNCHANGED skyMap
    /\ UNCHANGED <<correlationVars, chartVars, liveVars, apiVars, now, storeVars,
                   dashboardVars>>

\* one of the two requests rejects: Promise.all rejects, the catch block sets
\* the message and the finally block ends the load; the other request's
\* outcome is dropped
RequestRejects(message) ==
    /\ skyLoad.events.state = "pending" \/ skyLoad.results.state = "pending"
    /\ skyMap' = [skyMap EXCEPT !.error = message, !.loading = FALSE]
    /\ skyLoad' = [skyLoad EXCEPT !.events = NoRequest, !.results = NoRequest]
    /\ UNCHANGED <<correlationVars, chartVars, liveVars, apiVars, now, storeVars,
                   dashboardVars>>

-----------------------------------------------------------------------------
(* State machine of the component *)

Init ==
    /\ events = <<>>
    /\ timeWindow = 24
    /\ minConfidence = 70
    /\ correlationData = ComputeCorrelations(<<>>, 24, 70).correlationData
    /\ ChartInit
    /\ LiveInit
    /\ ApiInit
    /\ now = 0
    /\ StoreInit
    /\ DashboardInit
    /\ SkyInit

\* the parent re-renders with a new events array: the array it passed before
\* with one newer event (a larger id) put first or last
NewEventsProp(evs, e, atFront) == IF atFront THEN <<e>> \o evs ELSE Append(evs, e)

ReceiveEvent(e, atFront) ==
    /\ \A id \in EventIds(events) : id < e.id
    /\ LET run == ComputeCorrelations(NewEventsProp(events, e, atFront),
                                      timeWindow, minConfidence)
       IN  /\ events' = run.events
           /\ correlationData' = run.correlationData
    /\ UNCHANGED <<timeWindow, minConfidence, chartVars>>
    /\ UNCHANGED <<liveVars, apiVars, now, storeVars, dashboardVars, skyVars>>

\* onValueChange={setTimeWindow}
SetTimeWindow(w) ==
    /\ w # timeWindow
    /\ timeWindow' = w
    /\ LET run == ComputeCorrelations(events, w, minConfidence)
       IN  /\ events' = run.events
           /\ correlationData' = run.correlationData
    /\ UNCHANGED <<minConfidence, chartVars>>
    /\ UNCHANGED <<liveVars, apiVars, now, storeVars, dashboardVars, skyVars>>

\* onValueChange={setMinConfidence}
SetMinConfidence(c) ==
    /\ c # minConfidence
    /\ minConfidence' = c
    /\ LET run == ComputeCorrelations(events, timeWindow, c)
       IN  /\ events' = run.events
           /\ correlationData' = run.correlationData
    /\ UNCHANGED <<timeWindow, chartVars>>
    /\ UNCHANGED <<liveVars, apiVars, now, storeVars, dashboardVars, skyVars>>

Next ==
    \/ \E e \in EventPool, atFront \in BOOLEAN : ReceiveEvent(e, atFront)
    \/ \E w \in TimeWindowOptions : SetTimeWindow(w)
    \/ \E c \in MinConfidenceOptions : SetMinConfidence(c)

Spec == Init /\ [][Next]_vars

\* the same component fed with the events of the worked examples
NextScenarios ==
    \/ \E e \in ScenarioPool, atFront \in BOOLEAN : ReceiveEvent(e, atFront)
    \/ \E w \in TimeWindowOptions : SetTimeWindow(w)
    \/ \E c \in MinConfidenceOptions : SetMinConfidence(c)

SpecScenarios == Init /\ [][NextScenarios]_vars

\* CorrelationAnalysis and EventChart drawing the same events array
NextChart ==
    \/ \E e \in EventPool, atFront \in BOOLEAN : RenderCorrelationFirst(e, atFront)
    \/ \E e \in EventPool, atFront \in BOOLEAN : RenderChartFirst(e, atFront)
    \/ \E w \in TimeWindowOptions : SetTimeWindow(w)
    \/ \E c \in MinConfidenceOptions : SetMinConfidence(c)

SpecChart == Init /\ [][NextChart]_vars

\* the run of LiveCorrelationEngine
NextLive ==
    \/ RunCorrelationAnalysis
    \/ ProgressTick
    \/ \E status \in HttpStatuses : FetchResolves(status)
    \/ \E err \in Rejections : FetchRejects(err)
    \/ \E data \in LiveBodies : JsonResolves(data)
    \/ \E err \in Rejections : JsonRejects(err)

SpecLive == Init /\ [][NextLive]_vars

\* the API server, its requests in any order
NextApi ==
    \/ ClockTick
    \/ GetStatus
    \/ CollectData
    \/ AnalyzeCorrelations
    \/ GetEvents
    \/ GetResults
    \/ LiveCorrelation

SpecApi == Init /\ [][NextApi]_vars

\* the event store and its callers
NextStore ==
    \/ FetchEvents
    \/ TimePasses
    \/ TimerFires

SpecStore == Init /\ [][NextStore]_vars

\* the dashboard's live list
NextDashboard ==
    \/ LiveTick
    \/ DashboardRunCorrelationAnalysis
    \/ ToggleLiveMode

SpecDashboard == Init /\ [][NextDashboard]_vars

\* SkyMap and its loads
NextSky ==
    \/ ClockTick
    \/ LoadData
    \/ \E v \in SkyEvents : GetEventsResolves(v)
    \/ \E v \in SkyCorrelations : GetResultsResolves(v)
    \/ \E message \in LoadFailures : RequestRejects(message)

SpecSky == Init /\ [][NextSky]_vars

-----------------------------------------------------------------------------
(* Vocabulary of the properties *)

Candidates == {correlationData[k] : k \in DOMAIN correlationData}

\* positions i < j of the events prop
EventPairs == {p \in (DOMAIN events) \X (DOMAIN events) : p[1] < p[2]}

\* difference of two timestamps in hours
HoursApart(e1, e2) == Abs(e1.timestamp - e2.timestamp)

AboveFloor(e) == e.confidence * 100 >= minConfidence * Unit

\* the pair at positions p passes the confidence floor with different types
CrossTypeAboveFloor(p) ==
    /\ AboveFloor(events[p[1]])
    /\ AboveFloor(events[p[2]])
    /\ events[p[1]].type # events[p[2]].type

HasCandidate(p) == \E c \in Candidates : c.eventPair = <<events[p[1]], events[p[2]]>>

\* the surviving pairs before the sort and the cut
Surviving ==
    {p \in EventPairs : CrossTypeAboveFloor(p)
                        /\ HoursApart(events[p[1]], events[p[2]]) <= timeWindow}

-----------------------------------------------------------------------------
(* Properties of the correlation computation *)

\* C1: no candidate pairs two events of the same type; an events array of two
\* events of the same type yields no candidate at all
NoSameTypePairing ==
    /\ \A c \in Candidates : c.eventPair[1].type # c.eventPair[2].type
    /\ (Len(events) = 2 /\ events[1].type = events[2].type) => correlationData = <<>>

\* two events of one type, both above the floor and within the window, lie in
\* the input next to returned candidates
SameTypeEligibleSeen ==
    /\ correlationData # <<>>
    /\ \E p \in EventPairs :
          /\ events[p[1]].type = events[p[2]].type
          /\ AboveFloor(events[p[1]]) /\ AboveFloor(events[p[2]])
          /\ HoursApart(events[p[1]], events[p[2]]) <= timeWindow

\* C2: no candidate holds an event below minConfidence, and an event exactly on
\* minConfidence is kept: its pairs are candidates whenever nothing was cut
ConfidenceFloorRespected ==
    /\ \A c \in Candidates :
          /\ c.eventPair[1].confidence * 100 >= minConfidence * Unit
          /\ c.eventPair[2].confidence * 100 >= minConfidence * Unit
    /\ \A p \in Surviving :
          (/\ Len(correlationData) < MaxResults
           /\ \/ events[p[1]].confidence * 100 = minConfidence * Unit
              \/ events[p[2]].confidence * 100 = minConfidence * Unit)
          => HasCandidate(p)

\* an event below the floor is in the input, and a candidate holds an event
\* exactly on the floor
FloorEdgeSeen ==
    /\ \E k \in DOMAIN events : ~AboveFloor(events[k])
    /\ \E c \in Candidates : \E n \in {1, 2} :
          c.eventPair[n].confidence * 100 = minConfidence * Unit

\* C3: every candidate's timeDiff is the hours between its two timestamps and is
\* at most the time window; a pair further apart than the window has no candidate
TimeWindowRespected ==
    /\ \A c \in Candidates :
          /\ c.timeDiff = HoursApart(c.eventPair[1], c.eventPair[2])
          /\ c.timeDiff <= timeWindow
    /\ \A p \in EventPairs :
          HoursApart(events[p[1]], events[p[2]]) > timeWindow => ~HasCandidate(p)

\* a cross-type pair above the floor lies beyond the window while another
\* candidate sits exactly on the window's edge
WindowEdgeSeen ==
    /\ \E p \in EventPairs :
          /\ CrossTypeAboveFloor(p)
          /\ HoursApart(events[p[1]], events[p[2]]) > timeWindow
    /\ \E c \in Candidates : c.timeDiff = timeWindow

\* C4: every candidate's correlationScore lies in [0, 1]
ScoreBounds ==
    \A c \in Candidates : 0 <= c.correlationScore /\ c.correlationScore <= Unit

\* a candidate whose RA distance exceeds the 24 h range next to one that scores
\* above 0.8
ScoreExtremesSeen ==
    /\ \E c \in Candidates : c.spatialDistance > 24
    /\ \E c \in Candidates : c.correlationScore * 10 > 8 * Unit

\* C5: the returned list is in non-increasing order of correlationScore
MonotonicRanking ==
    \A k \in DOMAIN correlationData :
        k + 1 \in DOMAIN correlationData
        => correlationData[k].correlationScore >= correlationData[k + 1].correlationScore

\* the pairs were enumerated in an order that is not the ranked one
RankingReordered ==
    /\ Len(correlationData) >= 3
    /\ \E p, q \in Surviving :
          /\ p[1] < q[1] \/ (p[1] = q[1] /\ p[2] < q[2])
          /\ \E k, l \in DOMAIN correlationData :
                /\ l < k
                /\ correlationData[k].eventPair = <<events[p[1]], events[p[2]]>>
                /\ correlationData[l].eventPair = <<events[q[1]], events[q[2]]>>

\* C6: at most maxResults = 10 candidates are returned
ResultCap == Len(correlationData) <= 10

\* more than ten pairs survive and ten are returned
CapReached == Cardinality(Surviving) > 10 /\ Len(correlationData) = 10

\* C7: likelihood is 'high' for a score above 0.7, 'medium' for a score above
\* 0.5 and at most 0.7, 'low' for a score of at most 0.5
LikelihoodTiers ==
    \A c \in Candidates :
        /\ c.correlationScore * 10 > 7 * Unit => c.likelihood = "high"
        /\ (c.correlationScore * 10 > 5 * Unit /\ c.correlationScore * 10 <= 7 * Unit)
              => c.likelihood = "medium"
        /\ c.correlationScore * 10 <= 5 * Unit => c.likelihood = "low"

\* a candidate with score exactly 0.7 is 'medium' and one with exactly 0.5 'low'
TierEdgesSeen ==
    /\ \E c \in Candidates : c.correlationScore * 10 = 7 * Unit /\ c.likelihood = "medium"
    /\ \E c \in Candidates : c.correlationScore * 10 = 5 * Unit /\ c.likelihood = "low"

\* C8: correlationScore = 0.4 * timeScore + 0.3 * spatialScore + 0.3 * confidenceScore
\* with timeScore = max(0, 1 - timeDiff / window), spatialScore =
\* max(0, 1 - spatialDistance / 24), confidenceScore the mean of the two confidences
CompositeScore ==
    \A c \in Candidates :
        LET timeScore == Max(0, Unit - (c.timeDiff * Unit) \div timeWindow)
            spatialScore == Max(0, Unit - (c.spatialDistance * Unit) \div 24)
            confidenceSum == c.eventPair[1].confidence + c.eventPair[2].confidence
        IN  20 * c.correlationScore = 8 * timeScore + 6 * spatialScore + 3 * confidenceSum

\* a candidate whose three sub-scores are all strictly between 0 and 1
CompositeScoreSeen ==
    \E c \in Candidates :
        /\ 0 < c.timeDiff /\ c.timeDiff < timeWindow
        /\ 0 < c.spatialDistance /\ c.spatialDistance < 24
        /\ c.eventPair[1].confidence < Unit /\ c.eventPair[2].confidence < Unit

\* C10: a run of the computation leaves the events array as it was: a change of
\* the time window or of the floor changes no event, and a new events prop is
\* after the run the array the parent passed
InputNotMutated ==
    [][/\ (timeWindow' # timeWindow \/ minConfidence' # minConfidence)
            => events' = events
       /\ events' # events
            => \E e \in EventPool, atFront \in BOOLEAN :
                  events' = NewEventsProp(events, e, atFront)]_vars

\* the computation has run with the selects changed on an input of which the
\* filter dropped a part
FilteredRunSeen ==
    /\ timeWindow # 24 /\ minConfidence # 70
    /\ correlationData # <<>>
    /\ \E k \in DOMAIN events : ~AboveFloor(events[k])

-----------------------------------------------------------------------------
(* Properties of the enumeration, the ranking and the cut *)

\* p comes before q in the order of the two loops
EnumeratedBefore(p, q) == p[1] < q[1] \/ (p[1] = q[1] /\ p[2] < q[2])

\* the score the computation gives the pair at positions p
PairScore(p) == Candidate(events[p[1]], events[p[2]], timeWindow).correlationScore

Omitted == {p \in Surviving : ~HasCandidate(p)}

\* C13: two candidates of equal score are returned in the order in which their
\* pairs were enumerated (lower i first, then lower j)
TiesKeepEnumerationOrder ==
    \A k, l \in DOMAIN correlationData :
        (k < l /\ correlationData[k].correlationScore = correlationData[l].correlationScore)
        => \E p, q \in EventPairs :
              /\ correlationData[k].eventPair = <<events[p[1]], events[p[2]]>>
              /\ correlationData[l].eventPair = <<events[q[1]], events[q[2]]>>
              /\ EnumeratedBefore(p, q)

\* two returned candidates have the same score, below that of a candidate
\* enumerated after them
TieSeen ==
    \E k, l, m \in DOMAIN correlationData :
        /\ m < k /\ k < l
        /\ correlationData[k].correlationScore = correlationData[l].correlationScore
        /\ \E p, q \in EventPairs :
              /\ correlationData[k].eventPair = <<events[p[1]], events[p[2]]>>
              /\ correlationData[m].eventPair = <<events[q[1]], events[q[2]]>>
              /\ EnumeratedBefore(p, q)

\* C14: every pair of different types, both events on or above the floor, at
\* most the window apart, is a candidate before the cut to ten: the list holds
\* min(surviving pairs, 10) entries, each surviving pair when nothing is cut,
\* and three pairwise eligible events give exactly 3 candidates
EveryEligiblePairScored ==
    /\ Len(correlationData) = Min(Cardinality(Surviving), 10)
    /\ Cardinality(Surviving) <= 10 => \A p \in Surviving : HasCandidate(p)
    /\ (Len(events) = 3 /\ Surviving = EventPairs) => Len(correlationData) = 3

\* three pairwise eligible events, one pair exactly the window apart
ThreeEligibleSeen ==
    /\ Len(events) = 3
    /\ Surviving = EventPairs
    /\ Len(correlationData) = 3
    /\ \E c \in Candidates : c.timeDiff = timeWindow

\* C17: the two members of a candidate's eventPair are distinct events with
\* distinct ids
NoSelfPairing ==
    \A c \in Candidates :
        /\ c.eventPair[1] # c.eventPair[2]
        /\ c.eventPair[1].id # c.eventPair[2].id

\* every one of at least three input events is a member of a candidate
AllEventsPaired ==
    /\ Len(events) >= 3
    /\ \A k \in DOMAIN events :
          \E c \in Candidates : events[k] \in {c.eventPair[1], c.eventPair[2]}

\* C18: an events array of zero or one event yields no candidate, whatever
\* the time window and the floor
EmptyOrSingletonInput == Len(events) <= 1 => correlationData = <<>>

\* a single event above the floor, with both selects moved off their defaults
SingletonRunSeen ==
    /\ Len(events) = 1
    /\ AboveFloor(events[1])
    /\ timeWindow # 24 /\ minConfidence # 70

\* C19: the cut comes after the ranking: no surviving pair left out scores
\* strictly higher than a returned candidate
TopScoresKept ==
    \A p \in Omitted : \A c \in Candidates : PairScore(p) <= c.correlationScore

\* more than ten pairs survive, and a pair enumerated among the first ten is
\* left out for its lower score
LowScoreCutSeen ==
    /\ Cardinality(Surviving) > 10
    /\ \E p \in Omitted :
          /\ \A c \in Candidates : PairScore(p) < c.correlationScore
          /\ Cardinality({q \in Surviving : EnumeratedBefore(q, p)}) < 10

\* C20: eventPair keeps the input order: its first event stands at a strictly
\* earlier position of the events array than its second
InputOrderKept ==
    \A c \in Candidates :
        \E p \in EventPairs : c.eventPair = <<events[p[1]], events[p[2]]>>

\* a candidate whose first event has the larger id: the order is the array's
InputOrderSeen ==
    \E c \in Candidates : c.eventPair[1].id > c.eventPair[2].id

-----------------------------------------------------------------------------
(* Properties of the worked examples *)

\* an event that breaks the invariant confidence in [0, 1]
Malformed(e) == e.confidence < 0 \/ e.confidence > Unit

\* C11: an input with a malformed event (confidence 1.5) is rejected before any
\* pair is scored: no candidate is returned and the bad value enters no score
MalformedInputRejected ==
    (\E k \in DOMAIN events : Malformed(events[k])) => correlationData = <<>>

\* the correlationScore rounded to three decimals is n / 1000
RoundsTo(correlationScore, n) ==
    /\ (2 * n - 1) * Unit <= correlationScore * 2000
    /\ correlationScore * 2000 < (2 * n + 1) * Unit

\* the first worked example under the default configuration
ExampleOneInput ==
    /\ events \in {<<ScenarioEvent(1), ScenarioEvent(2)>>,
                   <<ScenarioEvent(2), ScenarioEvent(1)>>}
    /\ timeWindow = 24
    /\ minConfidence = 70

\* C15 as stated: the example yields one candidate, 'high', with a score that
\* rounds to 0.930
ExampleOneScores930 ==
    ExampleOneInput =>
        /\ Len(correlationData) = 1
        /\ correlationData[1].likelihood = "high"
        /\ RoundsTo(correlationData[1].correlationScore, 930)

\* C15, amended: the example yields one candidate, 1 h and 1 h of RA apart,
\* 'high', with a score that rounds to 0.941
ExampleOneScores941 ==
    ExampleOneInput =>
        /\ Len(correlationData) = 1
        /\ correlationData[1].timeDiff = 1
        /\ correlationData[1].spatialDistance = 1
        /\ correlationData[1].likelihood = "high"
        /\ RoundsTo(correlationData[1].correlationScore, 941)

\* the example has been computed
ExampleOneSeen == ExampleOneInput /\ Len(correlationData) = 1

\* C16: with the weights 0.5 / 0.5 / 0 of the configuration every score is
\* 0.5 * timeScore + 0.5 * spatialScore, whatever the confidences
SuppliedWeightsUsed ==
    \A c \in Candidates :
        LET timeScore == Max(0, Unit - (c.timeDiff * Unit) \div timeWindow)
            spatialScore == Max(0, Unit - (c.spatialDistance * Unit) \div 24)
        IN  2 * c.correlationScore = timeScore + spatialScore

-----------------------------------------------------------------------------
(* Properties of the distances and the sub-scores *)

\* the computation's result on the events array in reverse
Reversed == <<events[2], events[1]>>

ReversedData == ComputeCorrelations(Reversed, timeWindow, minConfidence).correlationData

\* C21: the computation on [a, b] and on [b, a] returns the same number of
\* candidates and, when there is one, the same timeDiff, spatialDistance,
\* correlationScore and likelihood
ScoringSymmetric ==
    Len(events) = 2 =>
        /\ Len(ReversedData) = Len(correlationData)
        /\ Len(correlationData) = 1 =>
              /\ ReversedData[1].timeDiff = correlationData[1].timeDiff
              /\ ReversedData[1].spatialDistance = correlationData[1].spatialDistance
              /\ ReversedData[1].correlationScore = correlationData[1].correlationScore
              /\ ReversedData[1].likelihood = correlationData[1].likelihood

\* a candidate of two events that differ in time and in RA, the later and
\* eastern one first
SymmetricPairSeen ==
    /\ Len(events) = 2
    /\ Len(correlationData) = 1
    /\ events[1].timestamp > events[2].timestamp
    /\ events[1].coordinates.ra.lead > events[2].coordinates.ra.lead

\* a right ascension "<lead>h <min>m" in minutes of RA
RaMinutes(ra) == ra.lead * 60 + ra.min

SubScoresClamped ==
    \A c \in Candidates :
        LET timeScore == TimeScore(c.timeDiff, timeWindow)
            spatialScore == SpatialScore(c.spatialDistance)
            confidenceScore == ConfidenceScore(c.eventPair[1], c.eventPair[2])
        IN  /\ 0 <= timeScore /\ timeScore <= Unit
            /\ 0 <= spatialScore /\ spatialScore <= Unit
            /\ 0 <= confidenceScore /\ confidenceScore <= Unit
            /\ c.timeDiff = timeWindow => timeScore = 0
            /\ c.spatialDistance >= 24 => spatialScore = 0
            /\ (c.timeDiff = timeWindow /\ c.spatialDistance >= 24)
                  => 10 * c.correlationScore = 3 * confidenceScore

\* a candidate on the edge of the window whose RA distance is above 24
BothClampsSeen ==
    \E c \in Candidates : c.timeDiff = timeWindow /\ c.spatialDistance > 24

-----------------------------------------------------------------------------
(* Properties of the other components *)

\* C24: EventChart's computation leaves the order of the events array
\* unchanged, so the candidates computed before it ran are, in order and in
\* eventPair order, those a computation on the array after it returns
ChartKeepsCorrelations ==
    correlationData = ComputeCorrelations(events, timeWindow, minConfidence).correlationData

\* C25: once a run of runCorrelationAnalysis has ended, with loading and
\* isRunning false, progress is 0 and stays 0 until the next run starts
ProgressZeroAfterRun ==
    (~liveEngine.loading /\ ~liveEngine.isRunning) => liveEngine.progress = 0

CollectLogged == "Starting data collection..." \in consoleLog

\* C26: GET /api/v1/events answers with an empty list and total_events 0 as
\* long as no collect-data was served, and afterwards with exactly the
\* collected events and their number, whatever other requests were served
EventsListing ==
    response.endpoint = "GET /api/v1/events" =>
        /\ response.body.total_events = Len(response.body.events)
        /\ response.body.events = analysisCache.phase2_data
        /\ response.body.events = IF CollectLogged THEN GetMockEvents ELSE <<>>

\* the two collected events are listed, with an analysis served in between
EventsListedSeen ==
    /\ response.endpoint = "GET /api/v1/events"
    /\ response.body.total_events = 2
    /\ Len(analysisCache.phase5_results) > 0

\* C27: GET /api/v1/status never reports phase5_complete or phase4_complete
\* while phase2_complete is false
ResultsOnlyAfterCollection ==
    response.endpoint = "GET /api/v1/status" =>
        ((response.body.phase5_complete \/ response.body.phase4_complete)
            => response.body.phase2_complete)

\* C28: isLoading is true whenever a fetchEvents call has started and not yet
\* finished
LoadingWhilePending == timers # <<>> => eventStore.isLoading

ResultIds == [k \in DOMAIN dashboard.correlationResults |-> dashboard.correlationResults[k].id]

\* a step of the live interval
IsLiveTick == now' = now + 1

\* C29: correlationResults never holds more than 20 entries; a live tick on a
\* list of 20 drops the oldest entry and appends the new one last; while live
\* mode is off only Run Analysis changes the list
LiveListBounded ==
    /\ [](Len(dashboard.correlationResults) <= 20)
    /\ [][(IsLiveTick /\ Len(dashboard.correlationResults) = 20) =>
              /\ Len(dashboard'.correlationResults) = 20
              /\ SubSeq(dashboard'.correlationResults, 1, 19)
                    = Tail(dashboard.correlationResults)
              /\ dashboard'.correlationResults[20].id = DateNow(now')]_vars
    /\ [][~dashboard.isLiveMode =>
              /\ ~IsLiveTick
              /\ \/ dashboard'.correlationResults = dashboard.correlationResults
                 \/ dashboard'.correlationResults = AnalysisResults(now)]_vars

\* a full list of live entries whose oldest ones were dropped, live mode off
FullLiveListSeen ==
    /\ Len(dashboard.correlationResults) = 20
    /\ ResultIds[1] > DateNow(1)
    /\ ResultIds[20] = DateNow(now)
    /\ ~dashboard.isLiveMode

\* the load ends
LoadEnds == skyMap.loading /\ ~skyMap'.loading

\* C30: a failed load leaves events and correlations unchanged, sets error to
\* the failure message and loading to false; events and correlations change
\* only at the end of a successful load, both to what that load's two
\* requests returned, and a load that succeeds leaves error null
LoadDataOutcome ==
    [][/\ (LoadEnds /\ skyMap'.error # Null) =>
              /\ skyMap'.events = skyMap.events
              /\ skyMap'.correlations = skyMap.correlations
              /\ skyMap'.error \in LoadFailures
       /\ skyMap'.error \notin {Null, skyMap.error} => LoadEnds
       /\ (skyMap'.events # skyMap.events \/ skyMap'.correlations # skyMap.correlations) =>
              /\ LoadEnds
              /\ skyLoad.events.state = "resolved" => skyMap'.events = skyLoad.events.value
              /\ skyLoad.results.state = "resolved"
                    => skyMap'.correlations = skyLoad.results.value
       /\ (LoadEnds /\ skyMap'.error = Null) =>
              /\ skyMap'.events \in SkyEvents
              /\ skyMap'.correlations \in SkyCorrelations
      ]_vars

\* a reload failed after a load that had succeeded: the loaded events are kept
FailedReloadSeen ==
    /\ ~skyMap.loading
    /\ skyMap.error # Null
    /\ skyMap.events # <<>>
    /\ skyMap.correlations # <<>>

====
